---- MODULE Spec2Model ----
(***************************************************************************)
(* Model of scripts/redact.js: the cross-tag redaction engine of           *)
(* legal-doc-redactor (replaceInXML, handleCrossTagReplacement,            *)
(* performCrossTagReplace, processDocx).                                   *)
(*                                                                         *)
(* A JavaScript string is a sequence of one-character strings.  Positions  *)
(* are 0-based as in the source; Substring, IndexOf and LastIndexOf have   *)
(* the semantics of the String.prototype methods of the same name.         *)
(***************************************************************************)
EXTENDS Integers, Sequences, FiniteSets, TLC

\* ------------------------------------------------------------------------
\* Bounds of the explored inputs
\* ------------------------------------------------------------------------
MaxFrags == 3
MaxText == 3
MaxRules == 2
MaxShapedFrags == 2
MaxSpecialText == 2
MaxSpecialRules == 1
MaxStringLength == 500

\* ------------------------------------------------------------------------
\* Program constants
\* ------------------------------------------------------------------------
maxIterations == 100
MaxSpan == 5
RunCloseLen == 6

RunOpen == <<"<", "w", ":", "r", ">">>
RunClose == <<"<", "/", "w", ":", "r", ">">>
TOpenPrefix == <<"<", "w", ":", "t">>
TClose == <<"<", "/", "w", ":", "t", ">">>
TOpen == TOpenPrefix \o <<">">>
TOpenPreserve ==
    TOpenPrefix \o <<" ", "x", "m", "l", ":", "s", "p", "a", "c", "e", "=", "\"",
                     "p", "r", "e", "s", "e", "r", "v", "e", "\"", ">">>

\* ------------------------------------------------------------------------
\* JavaScript string primitives
\* ------------------------------------------------------------------------
Min(a, b) == IF a <= b THEN a ELSE b
Max(a, b) == IF a >= b THEN a ELSE b

SetMin(S) == CHOOSE x \in S : \A y \in S : x <= y
SetMax(S) == CHOOSE x \in S : \A y \in S : x >= y

\* s.substring(a, b): arguments clamped to [0, length], swapped when a > b
Substring(s, a, b) ==
    LET ca == Max(0, Min(a, Len(s)))
        cb == Max(0, Min(b, Len(s)))
    IN SubSeq(s, Min(ca, cb) + 1, Max(ca, cb))

\* s.substring(a)
SubstringFrom(s, a) == Substring(s, a, Len(s))

\* s.startsWith(p, pos)
StartsWithAt(s, p, pos) ==
    /\ pos >= 0
    /\ pos + Len(p) <= Len(s)
    /\ SubSeq(s, pos + 1, pos + Len(p)) = p

\* s.indexOf(p, from): the first position >= from where p occurs, or -1
IndexOfFrom(s, p, from) ==
    LET hits == {k \in from..(Len(s) - Len(p)) : StartsWithAt(s, p, k)}
    IN IF hits = {} THEN -1 ELSE SetMin(hits)

IndexOf(s, p) == IndexOfFrom(s, p, 0)

\* s.lastIndexOf(p)
LastIndexOf(s, p) ==
    LET hits == {k \in 0..(Len(s) - Len(p)) : StartsWithAt(s, p, k)}
    IN IF hits = {} THEN -1 ELSE SetMax(hits)

\* s.includes(p)
Includes(s, p) == IndexOf(s, p) # -1

\* The concatenation of pieces[lo], ..., pieces[hi]
RECURSIVE Flatten(_, _, _)
Flatten(pieces, lo, hi) ==
    IF lo > hi THEN <<>>
    ELSE IF lo = hi THEN pieces[lo]
    ELSE Flatten(pieces, lo, (lo + hi) \div 2)
         \o Flatten(pieces, (lo + hi) \div 2 + 1, hi)

\* How many "$" stand immediately before position k (1-based) of rep
DollarsBefore(rep, k) ==
    SetMax({m \in 0..(k - 1) : \A j \in (k - m)..(k - 1) : rep[j] = "$"})

\* GetSubstitution for a string pattern (no capture groups), read from left
\* to right: $$ is a dollar sign and $& the matched text; a "$" before any
\* other character of the modelled alphabet is literal.  A character is the
\* second of such a pair when an odd number of "$" stands before it.
GetSubstitution(rep, matched) ==
    LET special == {"$", "&"}
        second(k) == rep[k] \in special /\ DollarsBefore(rep, k) % 2 = 1
        piece(k) ==
            IF second(k) THEN <<>>
            ELSE IF rep[k] = "$" /\ k < Len(rep) /\ rep[k + 1] \in special
                 THEN IF rep[k + 1] = "$" THEN <<"$">> ELSE matched
                 ELSE <<rep[k]>>
    IN Flatten([k \in 1..Len(rep) |-> piece(k)], 1, Len(rep))

\* s.replace(pattern, rep) with a string pattern: the first occurrence only
StrReplace(s, pattern, rep) ==
    LET pos == IndexOf(s, pattern)
    IN IF pos = -1 THEN s
       ELSE Substring(s, 0, pos) \o GetSubstitution(rep, pattern)
            \o SubstringFrom(s, pos + Len(pattern))

\* s.split("").join(rep): rep between every two characters; an empty
\* string has no pieces
JoinChars(s, rep) ==
    Flatten([k \in 1..Len(s) |-> IF k < Len(s) THEN <<s[k]>> \o rep ELSE <<s[k]>>],
            1, Len(s))

\* s.split(sep).join(rep) for a separator of one character: occurrences
\* cannot overlap, every one is replaced
ReplaceChar(s, c, rep) ==
    Flatten([k \in 1..Len(s) |-> IF s[k] = c THEN rep ELSE <<s[k]>>], 1, Len(s))

\* s.split(sep).join(rep) for a longer separator: the occurrences found
\* from left to right, each search starting behind the previous occurrence
RECURSIVE SplitJoinFrom(_, _, _)
SplitJoinFrom(s, sep, rep) ==
    LET pos == IndexOf(s, sep)
    IN IF pos = -1 THEN s
       ELSE Substring(s, 0, pos) \o rep
            \o SplitJoinFrom(SubstringFrom(s, pos + Len(sep)), sep, rep)

\* Faulty variant of SplitJoin: content.replace(original, replacement), which
\* replaces the first occurrence only
SplitJoinFirstOnly(s, sep, rep) == StrReplace(s, sep, rep)

\* content.split(sep).join(rep)
SplitJoin(s, sep, rep) ==
    IF sep = <<>> THEN JoinChars(s, rep)
    ELSE IF Len(sep) = 1 THEN ReplaceChar(s, sep[1], rep)
    ELSE SplitJoinFrom(s, sep, rep)

\* ------------------------------------------------------------------------
\* The text-leaf pattern /<w:t[^>]*>([^<]*)<\/w:t>/
\* ------------------------------------------------------------------------
\* Position of the ">" that ends the opening tag of a leaf starting at pos
LeafOpenEnd(s, pos) == IndexOfFrom(s, <<">">>, pos + Len(TOpenPrefix))

\* Position of the "<" that ends the content of a leaf starting at pos
LeafContentEnd(s, pos) == IndexOfFrom(s, <<"<">>, LeafOpenEnd(s, pos) + 1)

\* The pattern matches at pos.  [^>]* and [^<]* are each followed by the
\* character they exclude, so the match at a position is unique.
LeafMatchesAt(s, pos) ==
    /\ StartsWithAt(s, TOpenPrefix, pos)
    /\ LeafOpenEnd(s, pos) # -1
    /\ LeafContentEnd(s, pos) # -1
    /\ StartsWithAt(s, TClose, LeafContentEnd(s, pos))

\* The match object of the pattern at pos, as a text node
LeafAt(s, pos) ==
    LET gt == LeafOpenEnd(s, pos)
        lt == LeafContentEnd(s, pos)
    IN [fullMatch |-> Substring(s, pos, lt + Len(TClose)),
        content |-> Substring(s, gt + 1, lt),
        startIndex |-> pos,
        endIndex |-> lt + Len(TClose)]

\* Successive matches of the global pattern from lastIndex on
RECURSIVE ExecAll(_, _, _)
ExecAll(s, starts, lastIndex) ==
    LET cand == {k \in starts : k >= lastIndex}
    IN IF cand = {} THEN <<>>
       ELSE LET node == LeafAt(s, SetMin(cand))
            IN <<node>> \o ExecAll(s, starts, node.endIndex)

\* redact.js 66-81: all <w:t> leaves with their positions, in document order
ExtractTextNodes(s) ==
    ExecAll(s, {k \in 0..(Len(s) - 1) : LeafMatchesAt(s, k)}, 0)

\* ------------------------------------------------------------------------
\* handleCrossTagReplacement: the window scan (redact.js 83-166).
\* Fragment indices are 0-based: textNodes[i] of the source is nodes[i + 1].
\* ------------------------------------------------------------------------
\* redact.js 94-97
RECURSIVE CombinedText(_, _, _)
CombinedText(nodes, i, span) ==
    IF span = 0 THEN <<>>
    ELSE CombinedText(nodes, i, span - 1) \o nodes[i + span].content

\* redact.js 108-131: the loop over j that finds the first and last node of
\* the occurrence; loc carries charCount, startNodeIndex and endNodeIndex
RECURSIVE LocateLoop(_, _, _, _, _, _, _)
LocateLoop(nodes, i, span, matchStart, origLen, j, loc) ==
    IF j >= span THEN loc
    ELSE LET nodeLen == Len(nodes[i + j + 1].content)
             nodeEnd == loc.charCount + nodeLen
             matchEnd == matchStart + origLen
             s1 == IF loc.charCount <= matchStart /\ matchStart < nodeEnd
                   THEN i + j ELSE loc.startNodeIndex
         IN IF loc.charCount < matchEnd /\ matchEnd <= nodeEnd
            THEN [charCount |-> loc.charCount, startNodeIndex |-> s1,
                  endNodeIndex |-> i + j]
            ELSE LocateLoop(nodes, i, span, matchStart, origLen, j + 1,
                    [charCount |-> nodeEnd, startNodeIndex |-> s1,
                     endNodeIndex |-> IF loc.charCount < matchEnd /\ nodeEnd < matchEnd
                                      THEN i + j ELSE loc.endNodeIndex])

\* Faulty variant of OffsetInFirstNode: the offset in the window is taken for
\* the offset in the first node of the occurrence
OffsetInWindow(nodes, i, startNodeIndex, matchStart) == matchStart

\* redact.js 135-139
RECURSIVE OffsetInFirstNode(_, _, _, _)
OffsetInFirstNode(nodes, i, startNodeIndex, matchStart) ==
    IF startNodeIndex = i THEN matchStart
    ELSE OffsetInFirstNode(nodes, i + 1, startNodeIndex,
                           matchStart - Len(nodes[i + 1].content))

\* redact.js 104-150: the match a rule gives in the window (i, span)
CandidateMatch(nodes, i, span, item) ==
    LET combinedText == CombinedText(nodes, i, span)
        matchStart == IndexOf(combinedText, item.original)
        loc == LocateLoop(nodes, i, span, matchStart, Len(item.original), 0,
                          [charCount |-> 0, startNodeIndex |-> i, endNodeIndex |-> i])
    IN [startNodeIndex |-> loc.startNodeIndex,
        actualSpan |-> loc.endNodeIndex - loc.startNodeIndex + 1,
        original |-> item.original,
        replacement |-> item.replacement,
        offsetInFirstNode |-> OffsetInFirstNode(nodes, i, loc.startNodeIndex, matchStart)]

\* redact.js 152-155
Claimed(m) == m.startNodeIndex..(m.startNodeIndex + m.actualSpan - 1)

\* redact.js 100-161: the loop over the rules for one window; st carries
\* processed and matches; the loop stops at the first match it records
RECURSIVE ScanRules(_, _, _, _, _, _)
ScanRules(nodes, rules, i, span, k, st) ==
    IF k > Len(rules) THEN st
    ELSE IF Includes(CombinedText(nodes, i, span), rules[k].original)
         THEN LET m == CandidateMatch(nodes, i, span, rules[k])
              IN IF m.startNodeIndex \notin st.processed
                 THEN [processed |-> st.processed \cup Claimed(m),
                       matches |-> Append(st.matches, m)]
                 ELSE ScanRules(nodes, rules, i, span, k + 1, st)
         ELSE ScanRules(nodes, rules, i, span, k + 1, st)

\* redact.js 93-165: the loop over the spans of the windows starting at i
RECURSIVE ScanSpans(_, _, _, _, _)
ScanSpans(nodes, rules, i, span, st) ==
    IF span > Min(MaxSpan, Len(nodes) - i) THEN st
    ELSE LET st1 == ScanRules(nodes, rules, i, span, 1, st)
         IN IF i \in st1.processed THEN st1
            ELSE ScanSpans(nodes, rules, i, span + 1, st1)

\* redact.js 88-166: one iteration of the loop over i
ScanNode(nodes, rules, i, st) ==
    IF i \in st.processed THEN st ELSE ScanSpans(nodes, rules, i, 1, st)


\* ------------------------------------------------------------------------
\* performCrossTagReplace (redact.js 194-295)
\* ------------------------------------------------------------------------
\* redact.js 199-216: the match lies inside one <w:t>
ReplaceInOneNode(xmlContent, node, offsetInFirstNode, original, replacement) ==
    LET nodeContent == node.content
        newContent ==
            IF offsetInFirstNode = 0
            THEN StrReplace(nodeContent, original, replacement)
            ELSE Substring(nodeContent, 0, offsetInFirstNode) \o replacement
                 \o SubstringFrom(nodeContent, offsetInFirstNode + Len(original))
        newNodeTag == StrReplace(node.fullMatch, nodeContent, newContent)
    IN Substring(xmlContent, 0, node.startIndex) \o newNodeTag
       \o SubstringFrom(xmlContent, node.endIndex)

\* redact.js 229-231 and 255
BlockStart(xmlContent, firstTNode) ==
    LET firstRStart == LastIndexOf(Substring(xmlContent, 0, firstTNode.startIndex), RunOpen)
    IN IF firstRStart = -1 THEN firstTNode.startIndex ELSE firstRStart

\* redact.js 233-252 and 256: lastREndPos is recomputed to the value of
\* firstREndPos when the run markers are seen in betweenRuns
BlockEnd(xmlContent, lastTNode) ==
    LET firstREnd == IndexOf(SubstringFrom(xmlContent, lastTNode.endIndex), RunClose)
        firstREndPos == lastTNode.endIndex + (IF firstREnd = -1 THEN 0 ELSE firstREnd)
                        + RunCloseLen
        betweenRuns == Substring(xmlContent, firstREndPos, lastTNode.endIndex)
        lastREnd == IndexOf(SubstringFrom(xmlContent, lastTNode.endIndex), RunClose)
    IN IF Includes(betweenRuns, RunOpen) /\ Includes(betweenRuns, RunClose)
       THEN lastTNode.endIndex + (IF lastREnd = -1 THEN 0 ELSE lastREnd) + RunCloseLen
       ELSE firstREndPos

\* redact.js 264-292: the callback of xmlBlock.replace(tPattern, ...), applied
\* to the leaves of the block in order; nodeIndex counts the rewritten ones
RECURSIVE RewriteBlock(_, _, _, _, _, _, _, _, _, _)
RewriteBlock(xmlBlock, leaves, k, pos, nodeIndex, blockStart, firstTNode, lastTNode, tSpan, newFirst) ==
    IF k > Len(leaves) THEN SubstringFrom(xmlBlock, pos)
    ELSE LET leaf == leaves[k]
             match == leaf.fullMatch
             content == leaf.content
             matchPosInBlock == IndexOf(xmlBlock, match)
             absolutePos == blockStart + matchPosInBlock
             isFirstNode == absolutePos >= firstTNode.startIndex
                            /\ absolutePos < firstTNode.endIndex
             isLastNode == absolutePos >= lastTNode.startIndex
                           /\ absolutePos < lastTNode.endIndex
             isMiddleNode == ~isFirstNode /\ ~isLastNode
                             /\ nodeIndex > 0 /\ nodeIndex < tSpan - 1
             target == isFirstNode \/ isLastNode \/ isMiddleNode
             out == IF ~target THEN match
                    ELSE IF nodeIndex = 0 THEN StrReplace(match, content, newFirst)
                    ELSE StrReplace(match, content, <<>>)
         IN Substring(xmlBlock, pos, leaf.startIndex) \o out
            \o RewriteBlock(xmlBlock, leaves, k + 1, leaf.endIndex,
                            IF target THEN nodeIndex + 1 ELSE nodeIndex,
                            blockStart, firstTNode, lastTNode, tSpan, newFirst)

\* redact.js 194-295
performCrossTagReplace(xml, nodes, startIndex, tSpan, offsetInFirstNode, original, replacement) ==
    LET firstTNode == nodes[startIndex + 1]
        lastTNode == nodes[startIndex + tSpan]
    IN IF tSpan = 1
       THEN ReplaceInOneNode(xml, firstTNode, offsetInFirstNode, original, replacement)
       ELSE LET blockStart == BlockStart(xml, firstTNode)
                blockEnd == BlockEnd(xml, lastTNode)
                xmlBlock == Substring(xml, blockStart, blockEnd)
                prefix == Substring(firstTNode.content, 0, offsetInFirstNode)
                newXmlBlock == RewriteBlock(xmlBlock, ExtractTextNodes(xmlBlock), 1, 0, 0,
                                            blockStart, firstTNode, lastTNode, tSpan,
                                            prefix \o replacement)
            IN Substring(xml, 0, blockStart) \o newXmlBlock
               \o SubstringFrom(xml, blockEnd)

\* ------------------------------------------------------------------------
\* handleCrossTagReplacement as one call (redact.js 65-181)
\* ------------------------------------------------------------------------
\* redact.js 88-166: the loop over i, from node i on
RECURSIVE ScanAll(_, _, _, _)
ScanAll(nodes, rules, i, st) ==
    IF i >= Len(nodes) THEN st
    ELSE ScanAll(nodes, rules, i + 1, ScanNode(nodes, rules, i, st))

\* redact.js 174-178: the loop over the matches, from index k (0-based) down
RECURSIVE SpliceAll(_, _, _, _)
SpliceAll(xml, nodes, ms, k) ==
    IF k < 0 THEN xml
    ELSE SpliceAll(performCrossTagReplace(xml, nodes, ms[k + 1].startNodeIndex,
                       ms[k + 1].actualSpan, ms[k + 1].offsetInFirstNode,
                       ms[k + 1].original, ms[k + 1].replacement),
                   nodes, ms, k - 1)

\* redact.js 65-181
handleCrossTagReplacement(xml, rules) ==
    LET nodes == ExtractTextNodes(xml)
        st == ScanAll(nodes, rules, 0, [processed |-> {}, matches |-> <<>>])
    IN IF Len(st.matches) = 0 THEN xml
       ELSE SpliceAll(xml, nodes, st.matches, Len(st.matches) - 1)

\* ------------------------------------------------------------------------
\* replaceInXML: the residual single-tag pass (redact.js 47-54)
\* ------------------------------------------------------------------------
\* Faulty variant of ResidualLeaves: the text in front of a leaf is copied from the
\* start of the string instead of from the end of the previous leaf
RECURSIVE ResidualLeavesFromStart(_, _, _, _, _)
ResidualLeavesFromStart(s, leaves, k, pos, item) ==
    IF k > Len(leaves) THEN SubstringFrom(s, pos)
    ELSE LET leaf == leaves[k]
             closeStart == leaf.endIndex - Len(TClose)
             openTag == Substring(s, leaf.startIndex, closeStart - Len(leaf.content))
             closeTag == Substring(s, closeStart, leaf.endIndex)
             newContent == SplitJoin(leaf.content, item.original, item.replacement)
         IN Substring(s, 0, leaf.startIndex) \o openTag \o newContent \o closeTag
            \o ResidualLeavesFromStart(s, leaves, k + 1, leaf.endIndex, item)

\* Faulty variant of ResidualLeaves: the leaf is rebuilt with a plain <w:t> instead
\* of the opening tag that was matched
RECURSIVE ResidualLeavesPlainTag(_, _, _, _, _)
ResidualLeavesPlainTag(s, leaves, k, pos, item) ==
    IF k > Len(leaves) THEN SubstringFrom(s, pos)
    ELSE LET leaf == leaves[k]
             closeStart == leaf.endIndex - Len(TClose)
             closeTag == Substring(s, closeStart, leaf.endIndex)
             newContent == SplitJoin(leaf.content, item.original, item.replacement)
         IN Substring(s, pos, leaf.startIndex) \o TOpen \o newContent \o closeTag
            \o ResidualLeavesPlainTag(s, leaves, k + 1, leaf.endIndex, item)

\* redact.js 50-53: result.replace(/(<w:t[^>]*>)([^<]*?)(<\/w:t>)/g, ...)
RECURSIVE ResidualLeaves(_, _, _, _, _)
ResidualLeaves(s, leaves, k, pos, item) ==
    IF k > Len(leaves) THEN SubstringFrom(s, pos)
    ELSE LET leaf == leaves[k]
             closeStart == leaf.endIndex - Len(TClose)
             openTag == Substring(s, leaf.startIndex, closeStart - Len(leaf.content))
             closeTag == Substring(s, closeStart, leaf.endIndex)
             newContent == SplitJoin(leaf.content, item.original, item.replacement)
         IN Substring(s, pos, leaf.startIndex) \o openTag \o newContent \o closeTag
            \o ResidualLeaves(s, leaves, k + 1, leaf.endIndex, item)

ResidualReplace(s, item) == ResidualLeaves(s, ExtractTextNodes(s), 1, 0, item)

\* redact.js 48-54: the loop over all rules, in list order
RECURSIVE ResidualPass(_, _, _)
ResidualPass(s, rules, k) ==
    IF k > Len(rules) THEN s
    ELSE ResidualPass(ResidualReplace(s, rules[k]), rules, k + 1)

\* ------------------------------------------------------------------------
\* processDocx: the rule order (redact.js 307-308)
\* ------------------------------------------------------------------------
\* Insert item behind every rule whose original is at least as long
RECURSIVE InsertByLength(_, _)
InsertByLength(sorted, item) ==
    IF sorted = <<>> THEN <<item>>
    ELSE IF Len(Head(sorted).original) >= Len(item.original)
         THEN <<Head(sorted)>> \o InsertByLength(Tail(sorted), item)
         ELSE <<item>> \o sorted

\* [...redactions].sort((a, b) => b.original.length - a.original.length):
\* a stable sort by descending length of original
RECURSIVE SortByLength(_, _)
SortByLength(rules, k) ==
    IF k = 0 THEN <<>>
    ELSE InsertByLength(SortByLength(rules, k - 1), rules[k])


\* ------------------------------------------------------------------------
\* Inputs: markup of one document part and the caller's rule list
\* ------------------------------------------------------------------------
Chars == {"a", "b"}

RECURSIVE TextsOfLen(_)
TextsOfLen(n) ==
    IF n = 0 THEN {<<>>}
    ELSE {<<c>> \o t : c \in Chars, t \in TextsOfLen(n - 1)}

Texts == UNION {TextsOfLen(n) : n \in 0..MaxText}

RECURSIVE TotalLen(_, _)
TotalLen(contents, n) ==
    IF n = 0 THEN 0 ELSE TotalLen(contents, n - 1) + Len(contents[n])

\* The fragment contents of a part: at most MaxFrags fragments holding at
\* most MaxText characters together
ContentLists ==
    UNION {{c \in [1..n -> Texts] : TotalLen(c, n) <= MaxText} : n \in 0..MaxFrags}

\* "runs": one run per fragment; "one": all fragments in a single run;
\* "preserve": one run per fragment, xml:space="preserve" on every <w:t>;
\* "bare": fragments outside any run.  The parts of more than MaxShapedFrags
\* fragments are explored in the first two shapes.
Shapes == {"runs", "one", "preserve", "bare"}

ShapesFor(contents) ==
    IF Len(contents) <= MaxShapedFrags THEN Shapes ELSE {"runs", "one"}

RECURSIVE Leaves(_, _, _, _, _)
Leaves(contents, n, open, before, after) ==
    IF n = 0 THEN <<>>
    ELSE Leaves(contents, n - 1, open, before, after)
         \o before \o open \o contents[n] \o TClose \o after

Markup(contents, shape) ==
    CASE shape = "runs" -> Leaves(contents, Len(contents), TOpen, RunOpen, RunClose)
      [] shape = "preserve" ->
            Leaves(contents, Len(contents), TOpenPreserve, RunOpen, RunClose)
      [] shape = "one" ->
            RunOpen \o Leaves(contents, Len(contents), TOpen, <<>>, <<>>) \o RunClose
      [] shape = "bare" -> Leaves(contents, Len(contents), TOpen, <<>>, <<>>)

Rule(o, r) == [original |-> o, replacement |-> r]

\* Rules explored on every part
RulePool ==
    {Rule(<<"a">>, <<"X">>),
     Rule(<<"b">>, <<"a">>),
     Rule(<<"a", "b">>, <<"X">>),
     Rule(<<"a", "b", "a">>, <<"X">>)}

\* Rules explored on the small parts: an empty original, without and with a
\* replacement; a replacement that contains the original; replacements with
\* the patterns $$ and $& of String.prototype.replace
SpecialPool ==
    {Rule(<<>>, <<>>),
     Rule(<<>>, <<"X">>),
     Rule(<<"a">>, <<"a", "a">>),
     Rule(<<"a">>, <<"$", "$">>),
     Rule(<<"a">>, <<"$", "&">>)}

\* Rule lists of at most n pairwise different rules of pool
ListsOver(pool, n) ==
    UNION {{l \in [1..m -> pool] : \A p, q \in 1..m : p # q => l[p] # l[q]}
           : m \in 0..n}

\* word/document.xml, or an entry under word/header/ or word/footer/
Parts == {"document", "header"}

\* The two kinds of entry differ only in the rule order replaceInXML is
\* given, so a header is explored where the sort changes the order
PartsFor(l) ==
    IF SortByLength(l, Len(l)) = l THEN {"document"} ELSE Parts

\* The inputs explored: every part with the lists over RulePool, and the
\* parts of one fragment and at most MaxSpecialText characters with the
\* lists that hold a rule of SpecialPool (which can run all maxIterations
\* passes)
Inputs ==
    {[part |-> p, rules |-> l, contents |-> c, shape |-> sh] :
        p \in Parts, l \in ListsOver(RulePool, MaxRules),
        c \in ContentLists, sh \in Shapes}
    \cup
    {[part |-> p, rules |-> l, contents |-> c, shape |-> sh] :
        p \in Parts,
        l \in {k \in ListsOver(RulePool \cup SpecialPool, MaxSpecialRules) :
                 \E q \in 1..Len(k) : k[q] \in SpecialPool},
        c \in {d \in ContentLists : Len(d) = 1 /\ Len(d[1]) <= MaxSpecialText},
        sh \in Shapes}

\* ------------------------------------------------------------------------
\* State
\* ------------------------------------------------------------------------
VARIABLES
    part,              \* which archive entry is processed
    rules,             \* processDocx: redactions, as the caller gave them
    xmlContent,        \* replaceInXML: the markup it was called with
    redactions,        \* replaceInXML: the rule list it was called with
    result,            \* replaceInXML: result
    iteration,         \* replaceInXML: iteration
    hasCrossTagMatch,  \* replaceInXML: hasCrossTagMatch
    beforeLength,      \* replaceInXML: beforeLength
    residualRuns,      \* how often the loop of lines 48-54 was entered
    textNodes,         \* handleCrossTagReplacement: textNodes
    processed,         \* handleCrossTagReplacement: processed
    matches,           \* handleCrossTagReplacement: matches
    i,                 \* handleCrossTagReplacement: i of the scan loop
    passResult,        \* handleCrossTagReplacement: result
    matchIdx,          \* handleCrossTagReplacement: i of the splice loop
    ruleIdx,           \* replaceInXML: position of the residual loop
    pc

vars == <<part, rules, xmlContent, redactions, result, iteration, hasCrossTagMatch,
          beforeLength, residualRuns, textNodes, processed, matches, i, passResult,
          matchIdx, ruleIdx, pc>>

passVars == <<textNodes, processed, matches, i, passResult, matchIdx>>
inputVars == <<part, rules, xmlContent>>

Init ==
    /\ \E in \in Inputs :
          /\ in.part \in PartsFor(in.rules)
          /\ in.shape \in ShapesFor(in.contents)
          /\ part = in.part
          /\ rules = in.rules
          /\ xmlContent = Markup(in.contents, in.shape)
    /\ redactions = <<>>
    /\ result = <<>>
    /\ iteration = 0
    /\ hasCrossTagMatch = FALSE
    /\ beforeLength = 0
    /\ residualRuns = 0
    /\ textNodes = <<>>
    /\ processed = {}
    /\ matches = <<>>
    /\ i = 0
    /\ passResult = <<>>
    /\ matchIdx = 0
    /\ ruleIdx = 0
    /\ pc = "start"

\* redact.js 307-317 and 322-329: document.xml is given the sorted rules, a
\* header or footer entry the rules as the caller ordered them; then
\* replaceInXML starts (lines 28-31)
ProcessDocx ==
    /\ pc = "start"
    /\ redactions' = IF part = "document" THEN SortByLength(rules, Len(rules)) ELSE rules
    /\ result' = xmlContent
    /\ iteration' = 0
    /\ pc' = "pass"
    /\ UNCHANGED <<inputVars, hasCrossTagMatch, beforeLength, residualRuns, passVars,
                   ruleIdx>>

\* redact.js 34-36 and 66-85: the body of the do-loop up to the call, and
\* the fragment extraction of handleCrossTagReplacement
BeginPass ==
    /\ pc = "pass"
    /\ hasCrossTagMatch' = FALSE
    /\ beforeLength' = Len(result)
    /\ textNodes' = ExtractTextNodes(result)
    /\ processed' = {}
    /\ matches' = <<>>
    /\ i' = 0
    /\ passResult' = result
    /\ matchIdx' = 0
    /\ pc' = "scan"
    /\ UNCHANGED <<inputVars, redactions, result, iteration, residualRuns, ruleIdx>>

\* redact.js 88-166: one iteration of the loop over i
ScanStep ==
    /\ pc = "scan"
    /\ i < Len(textNodes)
    /\ LET st == ScanNode(textNodes, redactions, i,
                          [processed |-> processed, matches |-> matches])
       IN /\ processed' = st.processed
          /\ matches' = st.matches
    /\ i' = i + 1
    /\ UNCHANGED <<inputVars, redactions, result, iteration, hasCrossTagMatch,
                   beforeLength, residualRuns, textNodes, passResult, matchIdx,
                   ruleIdx, pc>>

\* redact.js 168-175: after the scan; with no match the markup is returned
\* as it is (the splice loop below then has nothing to do)
ScanDone ==
    /\ pc = "scan"
    /\ i >= Len(textNodes)
    /\ matchIdx' = Len(matches) - 1
    /\ pc' = "splice"
    /\ UNCHANGED <<inputVars, redactions, result, iteration, hasCrossTagMatch,
                   beforeLength, residualRuns, textNodes, processed, matches, i,
                   passResult, ruleIdx>>

\* A string longer than the engine allows cannot be built: the operation
\* throws RangeError (Invalid string length), which leaves replaceInXML and
\* processDocx and is caught in main (redact.js 379-385).  The limit of the
\* language, 2^53 - 1, is scaled down to MaxStringLength; among the inputs
\* explored only markup whose length doubles with every pass reaches either
\* limit within maxIterations passes.
TooLong(s) == Len(s) > MaxStringLength

\* redact.js 175-178: one iteration of the loop over the matches, last first
SpliceStep ==
    /\ pc = "splice"
    /\ matchIdx >= 0
    /\ LET m == matches[matchIdx + 1]
           spliced == performCrossTagReplace(passResult, textNodes, m.startNodeIndex,
                          m.actualSpan, m.offsetInFirstNode, m.original, m.replacement)
       IN IF TooLong(spliced)
          THEN /\ pc' = "thrown"
               /\ UNCHANGED <<passResult, matchIdx>>
          ELSE /\ passResult' = spliced
               /\ matchIdx' = matchIdx - 1
               /\ pc' = pc
    /\ UNCHANGED <<inputVars, redactions, result, iteration, hasCrossTagMatch,
                   beforeLength, residualRuns, textNodes, processed, matches, i,
                   ruleIdx>>

\* redact.js 180 and 36-45: handleCrossTagReplacement returns; the length
\* test and the loop condition
EndPass ==
    /\ pc = "splice"
    /\ matchIdx < 0
    /\ result' = passResult
    /\ hasCrossTagMatch' = (beforeLength # Len(passResult))
    /\ iteration' = iteration + 1
    /\ IF hasCrossTagMatch' /\ iteration' < maxIterations
       THEN /\ pc' = "pass"
            /\ UNCHANGED <<residualRuns, ruleIdx>>
       ELSE /\ pc' = "residual"
            /\ residualRuns' = residualRuns + 1
            /\ ruleIdx' = 0
    /\ UNCHANGED <<inputVars, redactions, beforeLength, passVars>>

\* redact.js 48-54: one iteration of the loop over the rules
ResidualStep ==
    /\ pc = "residual"
    /\ ruleIdx < Len(redactions)
    /\ LET replaced == ResidualReplace(result, redactions[ruleIdx + 1])
       IN IF TooLong(replaced)
          THEN /\ pc' = "thrown"
               /\ UNCHANGED <<result, ruleIdx>>
          ELSE /\ result' = replaced
               /\ ruleIdx' = ruleIdx + 1
               /\ pc' = pc
    /\ UNCHANGED <<inputVars, redactions, iteration, hasCrossTagMatch, beforeLength,
                   residualRuns, passVars>>

\* redact.js 56
Return ==
    /\ pc = "residual"
    /\ ruleIdx >= Len(redactions)
    /\ pc' = "done"
    /\ UNCHANGED <<inputVars, redactions, result, iteration, hasCrossTagMatch,
                   beforeLength, residualRuns, passVars, ruleIdx>>

Next ==
    \/ ProcessDocx
    \/ BeginPass
    \/ ScanStep
    \/ ScanDone
    \/ SpliceStep
    \/ EndPass
    \/ ResidualStep
    \/ Return

Spec == Init /\ [][Next]_vars

\* The engine is one synchronous call: every step that can be taken is taken
LiveSpec == Spec /\ WF_vars(Next)


\* ------------------------------------------------------------------------
\* Vocabulary of the properties
\* ------------------------------------------------------------------------
\* The contents of a list of text nodes, in order
Contents(nodes) == [k \in 1..Len(nodes) |-> nodes[k].content]

\* Character k (1-based) of s lies inside a tag: the nearest "<" at or
\* before it is not followed by a ">" before k
InTag(s, k) ==
    LET opens == {j \in 1..k : s[j] = "<"}
        closes == {j \in 1..(k - 1) : s[j] = ">"}
    IN opens # {} /\ (closes = {} \/ SetMax(opens) > SetMax(closes))

\* The tags of s, in order, without the text between them
Skeleton(s) ==
    Flatten([k \in 1..Len(s) |-> IF InTag(s, k) THEN <<s[k]>> ELSE <<>>], 1, Len(s))

\* The match that the splice loop applies next, and what it is applied to
SpliceEnabled == pc = "splice" /\ matchIdx >= 0
CurrentMatch == matches[matchIdx + 1]
Spliced ==
    performCrossTagReplace(passResult, textNodes, CurrentMatch.startNodeIndex,
        CurrentMatch.actualSpan, CurrentMatch.offsetInFirstNode,
        CurrentMatch.original, CurrentMatch.replacement)

\* The positions in textNodes are those of the string the splice is applied to
NodesAccurate == ExtractTextNodes(passResult) = textNodes

\* C1: within one pass no fragment index is claimed by more than one of the
\* matches pushed to the match list.
C1_DisjointMatches ==
    \A p, q \in 1..Len(matches) :
        p # q => Claimed(matches[p]) \cap Claimed(matches[q]) = {}

\* C2: a splice of a match over more than one fragment leaves prefix +
\* replacement in the first fragment of the span, empties the other
\* fragments of the span and keeps the content of every other fragment.
C2_MultiFragmentSplice ==
    (SpliceEnabled /\ NodesAccurate /\ CurrentMatch.actualSpan > 1) =>
        LET m == CurrentMatch
            first == m.startNodeIndex + 1
            last == m.startNodeIndex + m.actualSpan
            before == Contents(textNodes)
        IN Contents(ExtractTextNodes(Spliced)) =
              [k \in 1..Len(textNodes) |->
                  IF k = first
                  THEN Substring(before[k], 0, m.offsetInFirstNode) \o m.replacement
                  ELSE IF k > first /\ k <= last THEN <<>> ELSE before[k]]

\* C3: a splice of a match inside one fragment rewrites the inner text of
\* that fragment to content[0:offset] + replacement + content[offset +
\* original.length:] and leaves every other character of the markup as it
\* was (stated for the matches of a non-empty original; C7 is about the others).
C3_SingleFragmentSplice ==
    (SpliceEnabled /\ NodesAccurate /\ CurrentMatch.actualSpan = 1
       /\ CurrentMatch.original # <<>>) =>
        LET m == CurrentMatch
            node == textNodes[m.startNodeIndex + 1]
            contentEnd == node.endIndex - Len(TClose)
            contentStart == contentEnd - Len(node.content)
        IN Spliced =
              Substring(passResult, 0, contentStart)
              \o Substring(node.content, 0, m.offsetInFirstNode)
              \o m.replacement
              \o SubstringFrom(node.content, m.offsetInFirstNode + Len(m.original))
              \o SubstringFrom(passResult, contentEnd)

\* The text of all fragments of the pass, and where fragment i (0-based)
\* starts in it
AllText == CombinedText(textNodes, 0, Len(textNodes))
TextOffset(idx) == Len(CombinedText(textNodes, 0, idx))

\* How many fragments hold a character of AllText[p .. p + len - 1] (0-based)
FragmentsTouched(p, len) ==
    Cardinality({k \in 0..(Len(textNodes) - 1) :
                    /\ TextOffset(k) < p + len
                    /\ p < TextOffset(k + 1)})

\* C4: an occurrence of a rule's original that lies in at most 5 adjacent
\* fragments is never partly rewritten by a rule whose shorter original is
\* a substring of it: no recorded match lies inside such an occurrence.
C4_LongestRuleFirst ==
    \A k \in 1..Len(matches) : \A n \in 1..Len(redactions) :
        LET m == matches[k]
            long == redactions[n].original
            at == TextOffset(m.startNodeIndex) + m.offsetInFirstNode
        IN (Len(long) > Len(m.original) /\ Includes(long, m.original)) =>
              \A p \in 0..(Len(AllText) - Len(long)) :
                  ~ /\ StartsWithAt(AllText, long, p)
                    /\ FragmentsTouched(p, Len(long)) <= MaxSpan
                    /\ p <= at
                    /\ at + Len(m.original) <= p + Len(long)

\* C5: the tags of the markup that replaceInXML returns are the tags of its
\* input, in the same order.
C5_StructurePreserved ==
    pc = "done" => Skeleton(result) = Skeleton(xmlContent)

\* C6: replaceInXML runs at least one and at most maxIterations passes, then
\* the residual pass once, and returns.
C6_Termination ==
    /\ iteration <= maxIterations
    /\ residualRuns <= 1
    /\ pc = "residual" => iteration >= 1 /\ residualRuns = 1
    /\ pc = "done" => iteration >= 1 /\ residualRuns = 1
    /\ pc # "thrown"

\* C7: a rule with an empty original is never recorded as a match, and its
\* step of the residual pass changes nothing.
C7_EmptyOriginalNeverMatches ==
    /\ \A k \in 1..Len(matches) : matches[k].original # <<>>
    /\ (pc = "residual" /\ ruleIdx < Len(redactions)
          /\ redactions[ruleIdx + 1].original = <<>>) =>
            ResidualReplace(result, redactions[ruleIdx + 1]) = result

\* No fragment of s holds the original of a rule (an empty original is
\* held by every fragment)
NoOriginalLeft(s) ==
    LET nodes == ExtractTextNodes(s)
    IN \A k \in 1..Len(nodes) : \A n \in 1..Len(redactions) :
          ~Includes(nodes[k].content, redactions[n].original)

\* No fragment of s holds the non-empty original of a rule
NoTextOfOriginalLeft(s) ==
    LET nodes == ExtractTextNodes(s)
    IN \A k \in 1..Len(nodes) : \A n \in 1..Len(redactions) :
          redactions[n].original # <<>> =>
             ~Includes(nodes[k].content, redactions[n].original)

\* C8 as stated: the residual pass applied to its own output changes nothing.
C8_ResidualIdempotent ==
    pc = "done" => ResidualPass(result, redactions, 1) = result

\* C8, amended: the residual pass applied to its own output changes nothing
\* when that output holds no rule's original inside a fragment.
C8_ResidualIdempotentWhenComplete ==
    (pc = "done" /\ NoOriginalLeft(result)) =>
        ResidualPass(result, redactions, 1) = result

C8_Witness ==
    /\ pc = "done"
    /\ Len(redactions) = 2
    /\ result # xmlContent
    /\ NoOriginalLeft(result)

\* C9 as stated: after replaceInXML returns no fragment holds the original
\* of a rule (stated for the non-empty originals; C7 is about the others).
C9_NoOriginalLeft == pc = "done" => NoTextOfOriginalLeft(result)

\* Every original is non-empty; every replacement is non-empty and has
\* neither "<" nor a character of an original
ReplacementsForeign ==
    \A n \in 1..Len(redactions) :
        /\ redactions[n].original # <<>>
        /\ redactions[n].replacement # <<>>
        /\ \A c \in 1..Len(redactions[n].replacement) :
              /\ redactions[n].replacement[c] # "<"
              /\ \A o \in 1..Len(redactions) :
                    ~Includes(redactions[o].original, <<redactions[n].replacement[c]>>)

\* C9, amended: after replaceInXML returns no fragment holds the original of
\* a rule, when no original is empty and every replacement is non-empty and
\* has neither "<" nor a character that occurs in an original.
C9_NoOriginalLeftWhenForeign ==
    (pc = "done" /\ ReplacementsForeign) => NoTextOfOriginalLeft(result)

C9_Witness ==
    /\ pc = "done"
    /\ ReplacementsForeign
    /\ Len(redactions) = 2
    /\ result # xmlContent
    /\ LET nodes == ExtractTextNodes(xmlContent)
       IN \E k \in 1..Len(nodes) : Len(nodes[k].content) = 3

\* No rule's original occurs in a window of at most MaxSpan fragments of s
NoOccurrence(s) ==
    LET nodes == ExtractTextNodes(s)
    IN \A idx \in 0..(Len(nodes) - 1) :
          \A span \in 1..Min(MaxSpan, Len(nodes) - idx) :
             \A n \in 1..Len(redactions) :
                ~Includes(CombinedText(nodes, idx, span), redactions[n].original)

\* C10: with an empty rule list, and when no rule's original occurs in a
\* fragment or in up to 5 adjacent fragments, replaceInXML returns its input
\* after one pass.
C10_NoOpFrame ==
    (pc = "done" /\ (redactions = <<>> \/ NoOccurrence(xmlContent))) =>
        result = xmlContent /\ iteration = 1

C10_Witness ==
    /\ pc = "done"
    /\ redactions # <<>>
    /\ Len(ExtractTextNodes(xmlContent)) >= 2
    /\ NoOccurrence(xmlContent)

\* The loop of replaceInXML has just stopped: the residual pass has not yet
\* changed result
LoopStopped == pc = "residual" /\ ruleIdx = 0

\* C11: when the loop of replaceInXML stops before the cap of 100 passes,
\* the last pass recorded no match and one more call of
\* handleCrossTagReplacement on the markup would return it unchanged
\* (stated for the rule lists without an empty original; C7 is about the
\* others).
C11_StopsAtFixpoint ==
    (LoopStopped /\ iteration < maxIterations
       /\ \A n \in 1..Len(redactions) : redactions[n].original # <<>>) =>
        /\ matches = <<>>
        /\ handleCrossTagReplacement(result, redactions) = result

\* C12: every match recorded for a rule with a non-empty original locates
\* an occurrence: the span has 1 to 5 fragments and lies in the fragment
\* list, the offset lies in the first fragment of the span, the contents of
\* the spanned fragments read from the offset begin with the original, and
\* the occurrence ends inside the last fragment of the span; windows with
\* empty fragments are among the cases.
C12_MatchLocatesOccurrence ==
    \A k \in 1..Len(matches) :
        LET m == matches[k]
            text == CombinedText(textNodes, m.startNodeIndex, m.actualSpan)
            upToLast == CombinedText(textNodes, m.startNodeIndex, m.actualSpan - 1)
            occEnd == m.offsetInFirstNode + Len(m.original)
        IN m.original # <<>> =>
              /\ m.actualSpan >= 1
              /\ m.actualSpan <= MaxSpan
              /\ m.startNodeIndex >= 0
              /\ m.startNodeIndex + m.actualSpan <= Len(textNodes)
              /\ m.offsetInFirstNode >= 0
              /\ m.offsetInFirstNode <= Len(textNodes[m.startNodeIndex + 1].content)
              /\ StartsWithAt(text, m.original, m.offsetInFirstNode)
              /\ occEnd > Len(upToLast)
              /\ occEnd <= Len(text)

\* A match over three fragments whose middle fragment is empty
C12_Witness ==
    /\ pc = "splice"
    /\ \E k \in 1..Len(matches) :
          /\ matches[k].original # <<>>
          /\ matches[k].actualSpan = 3
          /\ textNodes[matches[k].startNodeIndex + 2].content = <<>>

\* The match list is in strictly increasing order of startNodeIndex
MatchesIncreasing ==
    \A p, q \in 1..Len(matches) :
        p < q => matches[p].startNodeIndex < matches[q].startNodeIndex

\* The fragments of the match that is spliced next are in passResult where
\* the fragment list extracted at the start of the pass has them
OffsetsAccurate ==
    \A n \in Claimed(CurrentMatch) :
        LET node == textNodes[n + 1]
        IN Substring(passResult, node.startIndex, node.endIndex) = node.fullMatch

\* C13: the match list of a pass is in strictly increasing order of
\* startNodeIndex, and every splice of the pass is applied to a string in
\* which the fragments of its match still lie at the offsets extracted at
\* the start of the pass.
C13_SpliceOffsetsAccurate ==
    /\ MatchesIncreasing
    /\ SpliceEnabled => OffsetsAccurate

\* The windows (span, rule) starting at fragment i that hold the rule's
\* original, and the first of them in the order of the scan: span
\* ascending from 1, then the rules in list order
Hits ==
    {h \in (1..Min(MaxSpan, Len(textNodes) - i)) \X (1..Len(redactions)) :
        Includes(CombinedText(textNodes, i, h[1]), redactions[h[2]].original)}
FirstHit ==
    CHOOSE h \in Hits :
        \A g \in Hits : h[1] < g[1] \/ (h[1] = g[1] /\ h[2] <= g[2])

\* The scan has gone through the windows that start at fragment i
ScannedWindowStart == pc = "scan" /\ i < Len(textNodes) /\ i' = i + 1

\* C14: the scan of the windows that start at an unclaimed fragment i
\* records at most one match, the first hit in the order (span ascending,
\* then rules in list order), and none when there is no hit; a claimed
\* fragment starts no window, and no fragment claimed before is part of a
\* match recorded later.
C14_OneMatchPerWindowStart ==
    [][ScannedWindowStart =>
          /\ Len(matches') <= Len(matches) + 1
          /\ i \in processed => matches' = matches
          /\ i \notin processed =>
                matches' = IF Hits = {} THEN matches
                           ELSE Append(matches,
                                   CandidateMatch(textNodes, i, FirstHit[1],
                                                  redactions[FirstHit[2]]))
          /\ \A k \in (Len(matches) + 1)..Len(matches') :
                Claimed(matches'[k]) \cap processed = {}]_vars

\* The text of all fragments of a markup
TextOf(s) ==
    LET nodes == ExtractTextNodes(s)
    IN CombinedText(nodes, 0, Len(nodes))

\* Where the occurrence of the match that is spliced next starts in AllText
OccurrenceStart ==
    TextOffset(CurrentMatch.startNodeIndex) + CurrentMatch.offsetInFirstNode

\* C15: a splice of a match over more than one fragment changes the text
\* of the fragments only by replacing the matched occurrence of original
\* by replacement; the characters of the last fragment of the span behind
\* the occurrence stay (stated for the matches of a non-empty original).
C15_MultiFragmentSpliceKeepsText ==
    (SpliceEnabled /\ NodesAccurate /\ CurrentMatch.actualSpan > 1
       /\ CurrentMatch.original # <<>>) =>
        TextOf(Spliced) =
            Substring(AllText, 0, OccurrenceStart)
            \o CurrentMatch.replacement
            \o SubstringFrom(AllText, OccurrenceStart + Len(CurrentMatch.original))



====
